---- MODULE Spec2Model ----
(***************************************************************************)
(* Model of lobsterchat (Maxuss/lobster): the chat Component tree and its  *)
(* mutators (src/src/component.rs), the MiniMessage tokenizer and           *)
(* tag-stack parser (src/src/message/tokens.rs), the entry points           *)
(* (src/src/message.rs) and the serde JSON encoding of Component.           *)
(*                                                                         *)
(* Strings are sequences of one-character strings, so that the tokenizer,  *)
(* the hex parser and the hex formatter work on characters.  Option<T> is  *)
(* a sequence of length at most one: None == <<>>, Some(v) == <<v>>.        *)
(***************************************************************************)
EXTENDS Integers, Sequences, FiniteSets, TLC

VARIABLES
    st,            \* message.rs: the markup String the lexer borrows
    tokens,        \* Parser.tokens: the lexer, as the input not yet consumed
    stack,         \* Parser.stack: VecDeque of pending tokens
    placeholders,  \* Parser.placeholders: HashMap name -> Component
    current,       \* Parser.current: the accumulator
    pc,            \* position in Parser::parse: "parse" | "finish" | "returned"
    advanced,      \* the Result of the last Parser::advance call
    ret,           \* what lobster / placeholder_lobster returned
    pulled,        \* history: the tokens that self.tokens.next() has returned
    doc,           \* codec: the Component being built and serialized
    calls,         \* codec: how many mutator calls have built doc
    wire,          \* codec: the JSON value on the wire
    decoded,       \* codec: the Result of serde_json::from_str
    phase          \* codec: "idle" | "build" | "encoded" | "received" | "decoded"
                   \*        | "panicked"

vars == <<st, tokens, stack, placeholders, current, pc, advanced, ret, pulled,
          doc, calls, wire, decoded, phase>>

parserVars == <<st, tokens, stack, placeholders, current, pc, advanced, ret,
               pulled>>
codecVars == <<doc, calls, wire, decoded, phase>>

None == <<>>
Some(v) == <<v>>

(***************************************************************************)
(* Bounds of the model.                                                    *)
(***************************************************************************)
\* the markup is a concatenation of at most MaxPieces pieces of Pieces, or one of
\* the ExampleMarkups
MaxPieces == 3
\* at most MaxMutators mutator calls build a document before it is encoded
MaxMutators == 2

(***************************************************************************)
(* Characters.                                                             *)
(***************************************************************************)
HexUpper == <<"0","1","2","3","4","5","6","7","8","9","A","B","C","D","E","F">>
HexLower == <<"0","1","2","3","4","5","6","7","8","9","a","b","c","d","e","f">>

IsHexDigit(c) == \E i \in 1..16 : HexUpper[i] = c \/ HexLower[i] = c
HexVal(c) == (CHOOSE i \in 1..16 : HexUpper[i] = c \/ HexLower[i] = c) - 1

Whitespace == {" ", "\t", "\n", "\r", "\f"}

\* u32::from_str_radix(inner, 16): Some(value), or None on an empty string, a
\* non-digit or a value above u32::MAX (acc * 16 + d overflows iff acc >= 2^28).
RECURSIVE FromStrRadix16Acc(_, _)
FromStrRadix16Acc(digits, acc) ==
    IF digits = <<>> THEN Some(acc)
    ELSE IF ~IsHexDigit(Head(digits)) THEN None
    ELSE IF acc >= 268435456 THEN None
    ELSE FromStrRadix16Acc(Tail(digits), acc * 16 + HexVal(Head(digits)))

from_str_radix(digits) ==
    IF digits = <<>> THEN None ELSE FromStrRadix16Acc(digits, 0)

\* the digits of {:X}: upper-case hexadecimal, no leading zeros, "0" for 0
RECURSIVE UpperHex(_)
UpperHex(v) ==
    IF v < 16 THEN <<HexUpper[v + 1]>>
    ELSE UpperHex(v \div 16) \o <<HexUpper[(v % 16) + 1]>>

\* {:wX}: a number is right-aligned in a minimum width w, padded with spaces
RECURSIVE PadLeft(_, _)
PadLeft(s, w) == IF Len(s) >= w THEN s ELSE PadLeft(<<" ">> \o s, w)

\* format!("#{:2X}", color)
FormatHexColor(v) == <<"#">> \o PadLeft(UpperHex(v), 2)

(***************************************************************************)
(* NamedColor and Formatting.                                              *)
(***************************************************************************)
NamedColorName ==
    [ DarkRed     |-> <<"d","a","r","k","_","r","e","d">>,
      Red         |-> <<"r","e","d">>,
      Gold        |-> <<"g","o","l","d">>,
      Yellow      |-> <<"y","e","l","l","o","w">>,
      DarkGreen   |-> <<"d","a","r","k","_","g","r","e","e","n">>,
      Green       |-> <<"g","r","e","e","n">>,
      Aqua        |-> <<"a","q","u","a">>,
      DarkAqua    |-> <<"d","a","r","k","_","a","q","u","a">>,
      DarkBlue    |-> <<"d","a","r","k","_","b","l","u","e">>,
      Blue        |-> <<"b","l","u","e">>,
      LightPurple |-> <<"l","i","g","h","t","_","p","u","r","p","l","e">>,
      DarkPurple  |-> <<"d","a","r","k","_","p","u","r","p","l","e">>,
      White       |-> <<"w","h","i","t","e">>,
      Gray        |-> <<"g","r","a","y">>,
      DarkGray    |-> <<"d","a","r","k","_","g","r","a","y">>,
      Black       |-> <<"b","l","a","c","k">> ]

NamedColor == DOMAIN NamedColorName

\* impl FromStr for NamedColor
NamedColor_from_str(s) ==
    IF \E c \in NamedColor : NamedColorName[c] = s
    THEN Some(CHOOSE c \in NamedColor : NamedColorName[c] = s)
    ELSE None

FormattingName ==
    [ Obfuscated    |-> <<"o","b","f","u","s","c","a","t","e","d">>,
      Bold          |-> <<"b","o","l","d">>,
      Strikethrough |-> <<"s","t","r","i","k","e","t","h","r","o","u","g","h">>,
      Underline     |-> <<"u","n","d","e","r","l","i","n","e">>,
      Italic        |-> <<"i","t","a","l","i","c">>,
      Reset         |-> <<"r","e","s","e","t">> ]

Formatting == DOMAIN FormattingName

\* impl FromStr for Formatting
Formatting_from_str(s) ==
    IF \E f \in Formatting : FormattingName[f] = s
    THEN Some(CHOOSE f \in Formatting : FormattingName[f] = s)
    ELSE None

(***************************************************************************)
(* Component and its mutators.                                             *)
(***************************************************************************)
Plain(text) == [kind |-> "Plain", text |-> text]

\* #[derive(Default)] for Component, with MessageContents::default()
DefaultComponent ==
    [ extra |-> None, bold |-> None, italic |-> None, obfuscated |-> None,
      strikethrough |-> None, underlined |-> None, reset |-> None,
      color |-> None, contents |-> Plain(<<>>), insertion |-> None,
      click_event |-> None, hover_event |-> None ]

\* Component::text
Component_text(msg) == [DefaultComponent EXCEPT !.contents = Plain(msg)]

TextColorNamed(c) == [kind |-> "Named", named |-> c]
TextColorHex(s) == [kind |-> "Hex", hex |-> s]

\* impl Colored<u32> for Component
color_u32(self, v) == [self EXCEPT !.color = Some(TextColorHex(FormatHexColor(v)))]

\* impl Colored<TextColor> for Component
color_text(self, color) == [self EXCEPT !.color = Some(color)]

\* impl Colored<NamedColor> for Component
color_named(self, c) == [self EXCEPT !.color = Some(TextColorNamed(c))]

\* the setters of _fmt_impl!
set_bold(self, b) == [self EXCEPT !.bold = Some(b)]
set_italic(self, b) == [self EXCEPT !.italic = Some(b)]
set_obfuscated(self, b) == [self EXCEPT !.obfuscated = Some(b)]
set_strikethrough(self, b) == [self EXCEPT !.strikethrough = Some(b)]
set_underlined(self, b) == [self EXCEPT !.underlined = Some(b)]
set_reset(self, b) == [self EXCEPT !.reset = Some(b)]

\* Component::formatted
formatted(self, format, enable) ==
    LET do_enable == IF enable = None THEN TRUE ELSE enable[1]
    IN  CASE format = "Obfuscated"    -> set_obfuscated(self, do_enable)
          [] format = "Bold"          -> set_bold(self, do_enable)
          [] format = "Strikethrough" -> set_strikethrough(self, do_enable)
          [] format = "Underline"     -> set_underlined(self, do_enable)
          [] format = "Italic"        -> set_italic(self, do_enable)
          [] format = "Reset"         -> set_reset(self, do_enable)

\* an append that puts the new node in front of the children
Component_append_Front(self, comp) ==
    IF self.extra # None
    THEN [self EXCEPT !.extra = Some(<<comp>> \o self.extra[1])]
    ELSE [self EXCEPT !.extra = Some(<<comp>>)]

\* Component::append
Component_append(self, comp) ==
    IF self.extra # None
    THEN [self EXCEPT !.extra = Some(Append(self.extra[1], comp))]
    ELSE [self EXCEPT !.extra = Some(<<comp>>)]

\* Component::append_to_last_child panics (vec.pop().unwrap()) when a node on
\* the rightmost spine has a present but empty children list.
RECURSIVE append_to_last_child_panics(_)
append_to_last_child_panics(self) ==
    /\ self.extra # None
    /\ \/ self.extra[1] = <<>>
       \/ /\ self.extra[1] # <<>>
          /\ append_to_last_child_panics(self.extra[1][Len(self.extra[1])])

\* an append_to_last_child that attaches to the node itself, like append
append_to_last_child_Top(self, comp) ==
    IF self.extra # None
    THEN [self EXCEPT !.extra = Some(Append(self.extra[1], comp))]
    ELSE [self EXCEPT !.extra = Some(<<comp>>)]

\* Component::append_to_last_child, where it does not panic
RECURSIVE append_to_last_child(_, _)
append_to_last_child(self, comp) ==
    IF self.extra # None
    THEN LET vec == self.extra[1]
             n == Len(vec)
             last == append_to_last_child(vec[n], comp)
         IN  [self EXCEPT !.extra = Some(Append(SubSeq(vec, 1, n - 1), last))]
    ELSE [self EXCEPT !.extra = Some(<<comp>>)]

\* MessageContents::flatten
MessageContents_flatten(contents) ==
    CASE contents.kind = "Plain"     -> contents.text
      [] contents.kind = "Translate" -> contents.translate
      [] contents.kind = "Score"     ->
            <<"<","s","c","o","r","e","b","o","a","r","d"," ",
              "m","e","s","s","a","g","e",">">>
      [] contents.kind = "Entity"    ->
            <<"<","e","n","t","i","t","y"," ","m","e","s","s","a","g","e",">">>
      [] contents.kind = "Keybind"   -> contents.keybind
      [] contents.kind = "Nbt"       ->
            <<"<","n","b","t"," ","m","e","s","s","a","g","e",">">>

\* Component::flatten
RECURSIVE flatten(_)
RECURSIVE FlattenChildren(_)
FlattenChildren(children) ==
    IF children = <<>> THEN <<>>
    ELSE flatten(Head(children)) \o FlattenChildren(Tail(children))

flatten(self) ==
    MessageContents_flatten(self.contents)
        \o (IF self.extra # None THEN FlattenChildren(self.extra[1]) ELSE <<>>)

(***************************************************************************)
(* The tokenizer: #[derive(Logos)] enum MessageToken.                      *)
(***************************************************************************)
TokHexColor(v) == [type |-> "HexColor", hex |-> v]
TokNamedColor(c) == [type |-> "NamedColor", color |-> c]
TokFormatting(f, enable) == [type |-> "Formatting", fmt |-> f, enable |-> enable]
TokPlaceholderTag(name) == [type |-> "PlaceholderTag", name |-> name]
TokContents(text) == [type |-> "Contents", text |-> text]
TokError == [type |-> "Error"]

\* fn grab_hex: slice[2..len-1] of "<#...>", parsed in base 16
grab_hex(inner) == from_str_radix(Tail(inner))

\* fn grab_named_color
grab_named_color(inner) == NamedColor_from_str(inner)

\* grab_formatting without the test for a leading '/': a closing tag enables
grab_formatting_NoClosing(inner) ==
    LET name == IF inner # <<>> /\ Head(inner) = "/" THEN Tail(inner) ELSE inner
        f == Formatting_from_str(name)
    IN  IF f = None THEN None ELSE Some(<<f[1], TRUE>>)

\* fn grab_formatting: Some((Formatting, enabled)) or None
grab_formatting(inner) ==
    IF inner # <<>> /\ Head(inner) = "/"
    THEN LET f == Formatting_from_str(Tail(inner))
         IN  IF f = None THEN None ELSE Some(<<f[1], FALSE>>)
    ELSE LET f == Formatting_from_str(inner)
         IN  IF f = None THEN None ELSE Some(<<f[1], TRUE>>)

\* fn grab_placeholder
grab_placeholder(inner) == Some(inner)

\* the regex of HexColor, on the text between "<" and ">": #[\da-fA-F]+
MatchesHexColor(inner) ==
    /\ Len(inner) >= 2
    /\ inner[1] = "#"
    /\ \A i \in 2..Len(inner) : IsHexDigit(inner[i])

\* the regex of NamedColor: one of the 16 alternatives
MatchesNamedColor(inner) == \E c \in NamedColor : NamedColorName[c] = inner

\* the regex of Formatting: /?(obfuscated|bold|strikethrough|underline|italic|reset)
MatchesFormatting(inner) ==
    \/ \E f \in Formatting : FormattingName[f] = inner
    \/ /\ inner # <<>>
       /\ Head(inner) = "/"
       /\ \E f \in Formatting : FormattingName[f] = Tail(inner)

\* the character class of PlaceholderTag: [^\\/\s^<>#]
PlaceholderChar(c) == c \notin ({"\\", "/", "^", "<", ">", "#"} \cup Whitespace)

\* the regex of PlaceholderTag: [^\\/\s^<>#]+
MatchesPlaceholderTag(inner) ==
    /\ inner # <<>>
    /\ \A i \in 1..Len(inner) : PlaceholderChar(inner[i])

\* the token of "<inner>" if PlaceholderTag won over the more specific patterns
TagToken_PlaceholderFirst(inner) ==
    IF MatchesPlaceholderTag(inner)
    THEN TokPlaceholderTag(grab_placeholder(inner)[1])
    ELSE IF MatchesHexColor(inner)
    THEN LET v == grab_hex(inner)
         IN  IF v = None THEN TokError ELSE TokHexColor(v[1])
    ELSE IF MatchesFormatting(inner)
    THEN LET f == grab_formatting(inner)
         IN  IF f = None THEN TokError ELSE TokFormatting(f[1][1], f[1][2])
    ELSE TokError

\* The token of a bracketed slice "<inner>".  The more specific patterns win
\* over PlaceholderTag; a callback that returns None makes the token Error.
TagToken(inner) ==
    IF MatchesHexColor(inner)
    THEN LET v == grab_hex(inner)
         IN  IF v = None THEN TokError ELSE TokHexColor(v[1])
    ELSE IF MatchesNamedColor(inner)
    THEN LET c == grab_named_color(inner)
         IN  IF c = None THEN TokError ELSE TokNamedColor(c[1])
    ELSE IF MatchesFormatting(inner)
    THEN LET f == grab_formatting(inner)
         IN  IF f = None THEN TokError ELSE TokFormatting(f[1][1], f[1][2])
    ELSE IF MatchesPlaceholderTag(inner)
    THEN TokPlaceholderTag(grab_placeholder(inner)[1])
    ELSE TokError

\* the first index k >= i with s[k] one of "<", ">"; Len(s) + 1 when there is none
RECURSIVE NextAngle(_, _)
NextAngle(s, i) ==
    IF i > Len(s) THEN Len(s) + 1
    ELSE IF s[i] \in {"<", ">"} THEN i
    ELSE NextAngle(s, i + 1)

\* Lexer::next on a non-empty input s: the token and the input left after it.
\* Contents is the longest run without "<" and ">"; every tag pattern runs from
\* "<" to the first ">" with no "<" between (lex.slice(), bound once as inner).
\* Where no pattern matches the token is Error (the parser never pulls a token
\* after it).
Lexer_next(s) ==
    IF s[1] \notin {"<", ">"}
    THEN LET n == NextAngle(s, 1) - 1
         IN  [tok |-> TokContents(SubSeq(s, 1, n)), rest |-> SubSeq(s, n + 1, Len(s))]
    ELSE IF s[1] = ">"
    THEN [tok |-> TokError, rest |-> Tail(s)]
    ELSE LET j == NextAngle(s, 2)
         IN  IF j > Len(s) \/ s[j] = "<"
             THEN [tok |-> TokError, rest |-> Tail(s)]
             ELSE CHOOSE nx \in {[tok |-> TagToken(inner),
                                   rest |-> SubSeq(s, j + 1, Len(s))] :
                                      inner \in {SubSeq(s, 2, j - 1)}} : TRUE

(***************************************************************************)
(* The parser: struct Parser and its methods.                              *)
(***************************************************************************)
Ok == [kind |-> "Ok"]
Err(e, detail) == [kind |-> "Err", error |-> e, detail |-> detail]

\* Parser::placeholder
Parser_placeholder(table, name, comp) ==
    [n \in DOMAIN table \cup {name} |-> IF n = name THEN comp ELSE table[n]]

\* the loop of placeholder_lobster over its [(name, value); N] argument
RECURSIVE RegisterAll(_, _)
RegisterAll(table, bindings) ==
    IF bindings = <<>> THEN table
    ELSE RegisterAll(Parser_placeholder(table, Head(bindings)[1], Head(bindings)[2]),
                     Tail(bindings))

\* the drain loop with pop_back in place of pop_front: last seen, first applied
RECURSIVE DrainStack_Lifo(_, _)
DrainStack_Lifo(text, queue) ==
    IF queue = <<>> THEN [ok |-> TRUE, text |-> text, queue |-> queue]
    ELSE LET stacked == queue[Len(queue)]
             rest == SubSeq(queue, 1, Len(queue) - 1)
         IN  CASE stacked.type = "HexColor" ->
                    DrainStack_Lifo(color_u32(text, stacked.hex), rest)
               [] stacked.type = "NamedColor" ->
                    DrainStack_Lifo(color_named(text, stacked.color), rest)
               [] stacked.type = "Formatting" ->
                    DrainStack_Lifo(formatted(text, stacked.fmt, Some(stacked.enable)),
                                    rest)
               [] OTHER -> [ok |-> FALSE, text |-> text, queue |-> rest]

\* the `while let Some(stacked) = self.stack.pop_front()` loop of the Contents
\* arm: the text node after the drain, or the failure on an invalid token
RECURSIVE DrainStack(_, _)
DrainStack(text, queue) ==
    IF queue = <<>> THEN [ok |-> TRUE, text |-> text, queue |-> queue]
    ELSE LET stacked == Head(queue)
         IN  CASE stacked.type = "HexColor" ->
                    DrainStack(color_u32(text, stacked.hex), Tail(queue))
               [] stacked.type = "NamedColor" ->
                    DrainStack(color_named(text, stacked.color), Tail(queue))
               [] stacked.type = "Formatting" ->
                    DrainStack(formatted(text, stacked.fmt, Some(stacked.enable)),
                               Tail(queue))
               [] OTHER -> [ok |-> FALSE, text |-> text, queue |-> Tail(queue)]

\* a reset marker that also switches bold off
ResetMarker_Bold == set_bold(set_reset(Component_text(<<>>), TRUE), FALSE)

\* the reset marker of the PlaceholderTag arm: Component::text("").reset(true)
ResetMarker == set_reset(Component_text(<<>>), TRUE)

\* the PlaceholderTag arm without the reset marker after the substituted node
SubstitutePlaceholder_NoMarker(acc, ph) == Component_append(acc, ph)

\* the PlaceholderTag arm with the reset marker before the substituted node
SubstitutePlaceholder_MarkerFirst(acc, ph) ==
    Component_append(Component_append(acc, ResetMarker), ph)

\* the PlaceholderTag arm's new accumulator
SubstitutePlaceholder(acc, ph) ==
    Component_append(Component_append(acc, ph), ResetMarker)

\* a loop that goes on after a failing token and ends at end of input only
WhileLetOk_SkipsFailures(result) == result.kind = "Ok" \/ result.error # "EOF"

\* a loop that never looks at the Result of advance
WhileLetOk_Always(result) == TRUE

\* `while let Ok(()) = self.advance()`: the loop goes on while advance is Ok
WhileLetOk(result) == result.kind = "Ok"

AfterAdvance(result) == IF WhileLetOk(result) THEN "parse" ELSE "finish"

\* Parser::finish, as returned by Parser::parse and the entry points
Parser_finish(acc) == [kind |-> "Document", doc |-> acc]

NotReturned == [kind |-> "NotReturned"]

\* the arm `other =>` takes a token that none of the arms before it matches
OtherArm_WithError(tk) == tk.type \notin {"PlaceholderTag", "Contents"}

OtherArm(tk) == tk.type \notin {"PlaceholderTag", "Contents", "Error"}

\* advance, MessageToken::PlaceholderTag arm
AdvancePlaceholderTag ==
    /\ pc = "parse"
    /\ tokens # <<>>
    /\ LET nx == Lexer_next(tokens)
       IN  /\ nx.tok.type = "PlaceholderTag"
           /\ tokens' = nx.rest
           /\ pulled' = Append(pulled, nx.tok)
           /\ IF nx.tok.name \notin DOMAIN placeholders
              THEN /\ advanced' = Err("UndefinedPlaceholder", nx.tok.name)
                   /\ current' = current
              ELSE /\ current' = SubstitutePlaceholder(current, placeholders[nx.tok.name])
                   /\ advanced' = Ok
    /\ pc' = AfterAdvance(advanced')
    /\ UNCHANGED <<st, stack, placeholders, ret, codecVars>>

\* advance, MessageToken::Contents arm
AdvanceContents ==
    /\ pc = "parse"
    /\ tokens # <<>>
    /\ LET nx == Lexer_next(tokens)
           drained == DrainStack(Component_text(nx.tok.text), stack)
       IN  /\ nx.tok.type = "Contents"
           /\ tokens' = nx.rest
           /\ pulled' = Append(pulled, nx.tok)
           /\ stack' = drained.queue
           /\ IF ~drained.ok
              THEN /\ advanced' = Err("InvalidToken", <<>>)
                   /\ current' = current
                   /\ pc' = AfterAdvance(advanced')
              ELSE IF append_to_last_child_panics(current)
              THEN /\ advanced' = advanced
                   /\ current' = current
                   /\ pc' = "panicked"
              ELSE /\ current' = append_to_last_child(current, drained.text)
                   /\ advanced' = Ok
                   /\ pc' = AfterAdvance(advanced')
    /\ UNCHANGED <<st, placeholders, ret, codecVars>>

\* advance, MessageToken::Error arm
AdvanceError ==
    /\ pc = "parse"
    /\ tokens # <<>>
    /\ LET nx == Lexer_next(tokens)
       IN  /\ nx.tok.type = "Error"
           /\ tokens' = nx.rest
           /\ pulled' = Append(pulled, nx.tok)
    /\ advanced' = Err("UnexpectedParsingError", <<>>)
    /\ pc' = AfterAdvance(advanced')
    /\ UNCHANGED <<st, stack, placeholders, current, ret, codecVars>>

\* advance, `other` arm: HexColor, NamedColor and Formatting are queued
AdvanceOther ==
    /\ pc = "parse"
    /\ tokens # <<>>
    /\ LET nx == Lexer_next(tokens)
       IN  /\ OtherArm(nx.tok)
           /\ tokens' = nx.rest
           /\ pulled' = Append(pulled, nx.tok)
           /\ stack' = Append(stack, nx.tok)
    /\ advanced' = Ok
    /\ pc' = AfterAdvance(advanced')
    /\ UNCHANGED <<st, placeholders, current, ret, codecVars>>

\* advance, when the lexer is exhausted: bail!("EOF Reached!")
AdvanceEOF ==
    /\ pc = "parse"
    /\ tokens = <<>>
    /\ advanced' = Err("EOF", <<>>)
    /\ pc' = AfterAdvance(advanced')
    /\ UNCHANGED <<st, tokens, stack, placeholders, current, ret, pulled, codecVars>>

\* Parser::parse after its loop: self.finish(), returned by the entry point
Finish ==
    /\ pc = "finish"
    /\ ret' = Parser_finish(current)
    /\ pc' = "returned"
    /\ UNCHANGED <<st, tokens, stack, placeholders, current, advanced, pulled,
                   codecVars>>

(***************************************************************************)
(* Inputs of the entry points.                                             *)
(***************************************************************************)
PieceA == <<"A">>
PieceB == <<"B">>
PieceBold == <<"<","b","o","l","d",">">>
PieceUnbold == <<"<","/","b","o","l","d",">">>
PieceHex == <<"<","#","0","0","F","F","0","0",">">>
PieceX == <<"<","x",">">>
PieceUnknown == <<"<","u","n","k","n","o","w","n","_","t","a","g",">">>
PieceLt == <<"<">>

Pieces == {PieceA, PieceB, PieceBold, PieceUnbold, PieceHex, PieceX,
           PieceUnknown, PieceLt}

RECURSIVE Concat(_)
Concat(seqs) == IF seqs = <<>> THEN <<>> ELSE Head(seqs) \o Concat(Tail(seqs))

\* "<bold>A</bold>B"
ExampleToggle == PieceBold \o PieceA \o PieceUnbold \o PieceB

\* "<red><bold>Hi"
ExampleAccumulate ==
    <<"<","r","e","d",">">> \o PieceBold \o <<"H","i">>

\* "<#00FF00><red><gold>A"
ExampleOverride ==
    PieceHex \o <<"<","r","e","d",">">> \o <<"<","g","o","l","d",">">> \o PieceA

\* "<name>"
Tag(name) == <<"<">> \o name \o <<">">>

\* names of single tags: unknown names, names around the color and formatting
\* names, and names with each character that the tag patterns treat specially
TagNames ==
    { <<"n","o","t","a","c","o","l","o","r">>, <<"r","e","d","x">>, <<"r","e">>,
      <<"d","a","r","k","_","r","e","d">>, <<"g","r","a","y">>,
      <<"r","e","s","e","t">>, <<"u","n","d","e","r","l","i","n","e">>,
      <<"u","n","d","e","r","l","i","n","e","d">>, <<"/","i","t","a","l","i","c">>,
      <<"a","^","b">>, <<"a","\\","b">>, <<"a","/","b">>, <<"a","#","b">>,
      <<"a"," ","b">>, <<"a","-","1">>, <<"#","F","F">>, <<"#","z","z">>, <<>> }

ExampleMarkups ==
    {ExampleToggle, ExampleAccumulate, ExampleOverride}
        \cup {Tag(name) : name \in TagNames}

Markups ==
    UNION {{Concat(ps) : ps \in [1..n -> Pieces]} : n \in 0..MaxPieces}
        \cup ExampleMarkups

NameX == <<"x">>
\* binding values, built with the public constructors and mutators
ValuePlain == Component_text(<<"X">>)
ValueStyled == set_italic(set_bold(color_named(Component_text(<<"X">>), "Gold"), TRUE), FALSE)
ValueTree == Component_append(color_u32(Component_text(<<"Y">>), 11189196),
                              set_bold(Component_text(<<"Z">>), TRUE))

\* the bindings arrays handed to placeholder_lobster; lobster registers none
BindingCases ==
    { << <<NameX, ValueStyled>> >>,
      << <<NameX, ValuePlain>>, <<NameX, ValueTree>> >> }

CodecIdle ==
    /\ doc = DefaultComponent
    /\ wire = [t |-> "null"]
    /\ decoded = [ok |-> FALSE]
    /\ phase = "idle"
    /\ calls = 0

\* before an entry point is called
Init ==
    /\ st = <<>>
    /\ tokens = <<>>
    /\ stack = <<>>
    /\ placeholders = <<>>
    /\ current = DefaultComponent
    /\ pc = "idle"
    /\ advanced = Ok
    /\ ret = NotReturned
    /\ pulled = <<>>
    /\ CodecIdle

\* Parser::new
Parser_new(lexer) ==
    [tokens |-> lexer, stack |-> <<>>, placeholders |-> <<>>,
     current |-> DefaultComponent]

\* the state of a parser `p` about to run Parser::parse on the markup msg
Enter(msg, p) ==
    /\ st' = msg
    /\ tokens' = p.tokens
    /\ stack' = p.stack
    /\ placeholders' = p.placeholders
    /\ current' = p.current
    /\ pc' = "parse"
    /\ pulled' = <<>>
    /\ UNCHANGED <<advanced, ret, codecVars>>

\* fn lobster, up to parser.parse()
Lobster ==
    /\ pc = "idle"
    /\ phase = "idle"
    /\ \E msg \in Markups : Enter(msg, Parser_new(msg))

\* fn placeholder_lobster, up to parser.parse()
PlaceholderLobster ==
    /\ pc = "idle"
    /\ phase = "idle"
    /\ \E msg \in Markups, b \in BindingCases :
          LET p == Parser_new(msg)
          IN  Enter(msg, [p EXCEPT !.placeholders = RegisterAll(p.placeholders, b)])

\* a step of Parser::parse
ParseStep ==
    \/ AdvancePlaceholderTag
    \/ AdvanceContents
    \/ AdvanceError
    \/ AdvanceOther
    \/ AdvanceEOF
    \/ Finish

Next ==
    \/ Lobster
    \/ PlaceholderLobster
    \/ ParseStep

Spec == Init /\ [][Next]_vars

\* parse is a loop of a single thread: once entered it always takes its next step
FairSpec == Init /\ [][Next]_vars /\ WF_vars(ParseStep)

(***************************************************************************)
(* The remaining constructors and mutators of Component.                   *)
(***************************************************************************)
\* Component::translate
Component_translate(msg, with) ==
    [DefaultComponent EXCEPT
        !.contents = [kind |-> "Translate", translate |-> msg, with |-> with]]

\* Component::score
Component_score(name, objective, value) ==
    [DefaultComponent EXCEPT
        !.contents = [kind |-> "Score", name |-> name, objective |-> objective,
                      value |-> value]]

\* Component::entity
Component_entity(selector, separator) ==
    [DefaultComponent EXCEPT
        !.contents = [kind |-> "Entity", selector |-> selector,
                      separator |-> separator]]

\* Component::keybind
Component_keybind(key) ==
    [DefaultComponent EXCEPT !.contents = [kind |-> "Keybind", keybind |-> key]]

\* Component::entity_nbt
Component_entity_nbt(path, selector, interpret, separator) ==
    [DefaultComponent EXCEPT
        !.contents = [kind |-> "Nbt", nbt |-> path, interpret |-> interpret,
                      separator |-> separator, block |-> None,
                      entity |-> Some(selector), storage |-> None]]

\* Component::storage_nbt
Component_storage_nbt(path, storage, interpret, separator) ==
    [DefaultComponent EXCEPT
        !.contents = [kind |-> "Nbt", nbt |-> path, interpret |-> interpret,
                      separator |-> separator, block |-> None,
                      entity |-> None, storage |-> Some(storage)]]

\* Component::insert_text
insert_text(self, text) == [self EXCEPT !.insertion = Some(text)]

\* Component::click_event
click_event(self, e) == [self EXCEPT !.click_event = Some(e)]

\* Component::hover_event
hover_event(self, e) == [self EXCEPT !.hover_event = Some(e)]

\* i32::to_string, for the page numbers 0..99 of the model
i32_to_string(n) ==
    IF n < 10 THEN <<HexUpper[n + 1]>>
    ELSE <<HexUpper[(n \div 10) + 1], HexUpper[(n % 10) + 1]>>

\* the constructors of ClickEvent
ClickEvent_open_url(url) == [action |-> "OpenUrl", value |-> url]
ClickEvent_run_command(cmd) == [action |-> "RunCommand", value |-> cmd]
ClickEvent_suggest_command(cmd) == [action |-> "SuggestCommand", value |-> cmd]
ClickEvent_change_page(page) == [action |-> "ChangePage", value |-> i32_to_string(page)]
ClickEvent_copy_to_clipboard(msg) == [action |-> "CopyToClipboard", value |-> msg]

\* the constructors of HoverEvent
HoverEvent_show_text(text) == [action |-> "ShowText", contents |-> text]
HoverEvent_show_item(item_data) == [action |-> "ShowItem", contents |-> item_data]
HoverEvent_show_entity(entity_data) == [action |-> "ShowEntity", contents |-> entity_data]

\* struct DisplayItemData
DisplayItemData(id, count, tag) == [id |-> id, count |-> count, tag |-> tag]

\* struct DisplayEntityData
DisplayEntityData(name, entity_type, id) ==
    [name |-> name, entity_type |-> entity_type, id |-> id]

(***************************************************************************)
(* JSON values, and the Serialize impls that serde derives.                *)
(***************************************************************************)
JNull == [t |-> "null"]
JBool(b) == [t |-> "bool", b |-> b]
JNum(n) == [t |-> "num", n |-> n]
JStr(s) == [t |-> "str", s |-> s]
JArr(a) == [t |-> "arr", a |-> a]
\* an object is a function from its keys, so key order does not matter
JObj(m) == [t |-> "obj", m |-> m]

NoEntries == <<>>

\* #[skip_serializing_none] rewrites the Option fields of a struct only when it
\* stands before the #[derive(Serialize)] that reads them: the derive expands
\* on the item as it is when the derive is reached.
SkipNone_Component == TRUE
SkipNone_DisplayItemData == FALSE
SkipNone_DisplayEntityData == FALSE
SkipNone_NbtMessage == TRUE
SkipNone_EntityMessage == TRUE
SkipNone_TranslatedMessage == TRUE
SkipNone_ScoreboardMessage == TRUE

\* an Option field: its value if present, else nothing (skipped) or null
OptEntry(skips, key, opt, value) ==
    IF opt # None THEN key :> value
    ELSE IF skips THEN NoEntries
    ELSE key :> JNull

\* #[serde(rename_all = "snake_case")] for NamedColor
NamedColorWire(c) == NamedColorName[c]

\* #[serde(untagged)] enum TextColor
SerTextColor(color) ==
    IF color.kind = "Named" THEN JStr(NamedColorWire(color.named))
    ELSE JStr(color.hex)

\* #[serde(rename_all = "snake_case")] for ClickEvent
ClickActionWire ==
    [ OpenUrl         |-> <<"o","p","e","n","_","u","r","l">>,
      RunCommand      |-> <<"r","u","n","_","c","o","m","m","a","n","d">>,
      SuggestCommand  |-> <<"s","u","g","g","e","s","t","_","c","o","m","m","a","n","d">>,
      ChangePage      |-> <<"c","h","a","n","g","e","_","p","a","g","e">>,
      CopyToClipboard |-> <<"c","o","p","y","_","t","o","_","c","l","i","p","b","o","a","r","d">> ]

\* #[serde(tag = "action", content = "value")] enum ClickEvent
SerClickEvent(e) ==
    JObj(("action" :> JStr(ClickActionWire[e.action])) @@ ("value" :> JStr(e.value)))

\* #[serde(rename_all = "snake_case")] for HoverEvent
HoverActionWire ==
    [ ShowText   |-> <<"s","h","o","w","_","t","e","x","t">>,
      ShowItem   |-> <<"s","h","o","w","_","i","t","e","m">>,
      ShowEntity |-> <<"s","h","o","w","_","e","n","t","i","t","y">> ]

\* a Uuid value is its 32 hex digits in lower case; it is written hyphenated
Hyphenate(u) ==
    SubSeq(u, 1, 8) \o <<"-">> \o SubSeq(u, 9, 12) \o <<"-">> \o SubSeq(u, 13, 16)
    \o <<"-">> \o SubSeq(u, 17, 20) \o <<"-">> \o SubSeq(u, 21, 32)

LowerHex(s) == [i \in 1..Len(s) |-> HexLower[HexVal(s[i]) + 1]]

AllHex(s) == \A i \in 1..Len(s) : IsHexDigit(s[i])

\* Uuid, Deserialize: the hyphenated and the simple form are read
ParseUuid(s) ==
    IF Len(s) = 32 /\ AllHex(s) THEN Some(LowerHex(s))
    ELSE IF /\ Len(s) = 36
            /\ \A i \in {9, 14, 19, 24} : s[i] = "-"
            /\ AllHex(SubSeq(s, 1, 8) \o SubSeq(s, 10, 13) \o SubSeq(s, 15, 18)
                      \o SubSeq(s, 20, 23) \o SubSeq(s, 25, 36))
         THEN Some(LowerHex(SubSeq(s, 1, 8) \o SubSeq(s, 10, 13) \o SubSeq(s, 15, 18)
                            \o SubSeq(s, 20, 23) \o SubSeq(s, 25, 36)))
    ELSE None

\* struct DisplayItemData, Serialize
SerDisplayItemData(d) ==
    JObj(("id" :> JStr(d.id))
         @@ OptEntry(SkipNone_DisplayItemData, "count", d.count,
                     IF d.count = None THEN JNull ELSE JNum(d.count[1]))
         @@ OptEntry(SkipNone_DisplayItemData, "tag", d.tag,
                     IF d.tag = None THEN JNull ELSE JStr(d.tag[1])))

RECURSIVE SerComponent(_)
RECURSIVE SerComponents(_)
RECURSIVE SerContents(_)
RECURSIVE SerHoverEvent(_)
RECURSIVE SerDisplayEntityData(_)

\* Vec<Component>, Serialize
SerComponents(v) ==
    IF v = <<>> THEN <<>> ELSE <<SerComponent(Head(v))>> \o SerComponents(Tail(v))

SerOptComponent(skips, key, opt) ==
    OptEntry(skips, key, opt, IF opt = None THEN JNull ELSE SerComponent(opt[1]))

SerOptString(skips, key, opt) ==
    OptEntry(skips, key, opt, IF opt = None THEN JNull ELSE JStr(opt[1]))

SerOptBool(skips, key, opt) ==
    OptEntry(skips, key, opt, IF opt = None THEN JNull ELSE JBool(opt[1]))

\* struct DisplayEntityData, Serialize (entity_type is renamed "type")
SerDisplayEntityData(d) ==
    JObj(SerOptComponent(SkipNone_DisplayEntityData, "name", d.name)
         @@ ("type" :> JStr(d.entity_type))
         @@ ("id" :> JStr(Hyphenate(d.id))))

\* #[serde(tag = "action")] enum HoverEvent, Serialize
SerHoverEvent(e) ==
    JObj(("action" :> JStr(HoverActionWire[e.action]))
         @@ ("contents" :>
                CASE e.action = "ShowText"   -> SerComponent(e.contents)
                  [] e.action = "ShowItem"   -> SerDisplayItemData(e.contents)
                  [] e.action = "ShowEntity" -> SerDisplayEntityData(e.contents)))

\* #[serde(untagged)] enum MessageContents, Serialize: the entries of the
\* variant, which #[serde(flatten)] merges into the node's object
SerContents(c) ==
    CASE c.kind = "Plain" -> "text" :> JStr(c.text)
      [] c.kind = "Translate" ->
            ("translate" :> JStr(c.translate))
            @@ OptEntry(SkipNone_TranslatedMessage, "with", c.with,
                        IF c.with = None THEN JNull ELSE JArr(SerComponents(c.with[1])))
      [] c.kind = "Score" ->
            "score" :> JObj(("name" :> JStr(c.name))
                            @@ ("objective" :> JStr(c.objective))
                            @@ SerOptString(SkipNone_ScoreboardMessage, "value", c.value))
      [] c.kind = "Entity" ->
            ("selector" :> JStr(c.selector))
            @@ SerOptComponent(SkipNone_EntityMessage, "separator", c.separator)
      [] c.kind = "Keybind" -> "keybind" :> JStr(c.keybind)
      [] c.kind = "Nbt" ->
            ("nbt" :> JStr(c.nbt))
            @@ SerOptBool(SkipNone_NbtMessage, "interpret", c.interpret)
            @@ SerOptComponent(SkipNone_NbtMessage, "separator", c.separator)
            @@ SerOptString(SkipNone_NbtMessage, "block", c.block)
            @@ SerOptString(SkipNone_NbtMessage, "entity", c.entity)
            @@ SerOptString(SkipNone_NbtMessage, "storage", c.storage)

\* struct Component, Serialize (Component::to_string is serde_json::to_string)
SerComponent(c) ==
    JObj(OptEntry(SkipNone_Component, "extra", c.extra,
                  IF c.extra = None THEN JNull ELSE JArr(SerComponents(c.extra[1])))
         @@ SerOptBool(SkipNone_Component, "bold", c.bold)
         @@ SerOptBool(SkipNone_Component, "italic", c.italic)
         @@ SerOptBool(SkipNone_Component, "obfuscated", c.obfuscated)
         @@ SerOptBool(SkipNone_Component, "strikethrough", c.strikethrough)
         @@ SerOptBool(SkipNone_Component, "underlined", c.underlined)
         @@ SerOptBool(SkipNone_Component, "reset", c.reset)
         @@ OptEntry(SkipNone_Component, "color", c.color,
                     IF c.color = None THEN JNull ELSE SerTextColor(c.color[1]))
         @@ SerContents(c.contents)
         @@ SerOptString(SkipNone_Component, "insertion", c.insertion)
         @@ OptEntry(SkipNone_Component, "clickEvent", c.click_event,
                     IF c.click_event = None THEN JNull
                     ELSE SerClickEvent(c.click_event[1]))
         @@ OptEntry(SkipNone_Component, "hoverEvent", c.hover_event,
                     IF c.hover_event = None THEN JNull
                     ELSE SerHoverEvent(c.hover_event[1])))

(***************************************************************************)
(* The Deserialize impls that serde derives.  A struct is read from a JSON *)
(* object; keys it does not know are ignored; an Option field that is      *)
(* missing or null is None.                                                *)
(***************************************************************************)
DOk(v) == [ok |-> TRUE, val |-> v]
DErr == [ok |-> FALSE]

Present(m, key) == key \in DOMAIN m /\ m[key] # JNull

HasStr(m, key) == key \in DOMAIN m /\ m[key].t = "str"

\* Option<String>
DeOptString(m, key) ==
    IF ~Present(m, key) THEN DOk(None)
    ELSE IF m[key].t = "str" THEN DOk(Some(m[key].s))
    ELSE DErr

\* Option<bool>
DeOptBool(m, key) ==
    IF ~Present(m, key) THEN DOk(None)
    ELSE IF m[key].t = "bool" THEN DOk(Some(m[key].b))
    ELSE DErr

\* Option<i32>
DeOptI32(m, key) ==
    IF ~Present(m, key) THEN DOk(None)
    ELSE IF m[key].t = "num" THEN DOk(Some(m[key].n))
    ELSE DErr

\* enum NamedColor, Deserialize: one of the sixteen snake_case names
DeNamedColor(j) ==
    IF j.t = "str" /\ \E c \in NamedColor : NamedColorWire(c) = j.s
    THEN DOk(CHOOSE c \in NamedColor : NamedColorWire(c) = j.s)
    ELSE DErr

\* the variants of TextColor, in the order in which untagged tries them
TextColorVariants_HexFirst == <<"Hex", "Named">>

TextColorVariants == <<"Named", "Hex">>

DeTextColorVariant(variant, j) ==
    IF variant = "Named"
    THEN LET named == DeNamedColor(j)
         IN  IF named.ok THEN DOk(TextColorNamed(named.val)) ELSE DErr
    ELSE IF j.t = "str" THEN DOk(TextColorHex(j.s)) ELSE DErr

\* #[serde(untagged)] enum TextColor, Deserialize: the first variant that reads
DeTextColor(j) ==
    LET first == DeTextColorVariant(TextColorVariants[1], j)
    IN  IF first.ok THEN first ELSE DeTextColorVariant(TextColorVariants[2], j)

\* Option<TextColor>
DeOptTextColor(m, key) ==
    IF ~Present(m, key) THEN DOk(None)
    ELSE LET color == DeTextColor(m[key])
         IN  IF color.ok THEN DOk(Some(color.val)) ELSE DErr

\* #[serde(tag = "action", content = "value")] enum ClickEvent, Deserialize
DeClickEvent(j) ==
    IF /\ j.t = "obj"
       /\ HasStr(j.m, "action")
       /\ \E a \in DOMAIN ClickActionWire : ClickActionWire[a] = j.m["action"].s
       /\ HasStr(j.m, "value")
    THEN DOk([action |-> CHOOSE a \in DOMAIN ClickActionWire :
                            ClickActionWire[a] = j.m["action"].s,
              value |-> j.m["value"].s])
    ELSE DErr

\* Option<ClickEvent>
DeOptClickEvent(m, key) ==
    IF ~Present(m, key) THEN DOk(None)
    ELSE LET e == DeClickEvent(m[key])
         IN  IF e.ok THEN DOk(Some(e.val)) ELSE DErr

\* struct DisplayItemData, Deserialize
DeDisplayItemData(j) ==
    IF j.t # "obj" THEN DErr
    ELSE LET count == DeOptI32(j.m, "count")
             tag == DeOptString(j.m, "tag")
         IN  IF HasStr(j.m, "id") /\ count.ok /\ tag.ok
             THEN DOk(DisplayItemData(j.m["id"].s, count.val, tag.val))
             ELSE DErr

\* the fields of Component that are not flattened
ComponentFields ==
    {"extra", "bold", "italic", "obfuscated", "strikethrough", "underlined",
     "reset", "color", "insertion", "clickEvent", "hoverEvent"}

RECURSIVE DeComponent(_)
RECURSIVE DeComponents(_)
RECURSIVE DeOptComponent(_, _)
RECURSIVE DeOptComponents(_, _)
RECURSIVE DeDisplayEntityData(_)
RECURSIVE DeHoverEvent(_)
RECURSIVE DeOptHoverEvent(_, _)
RECURSIVE DeContentsVariant(_, _)
RECURSIVE DeContentsFrom(_, _)

\* Vec<Component>, Deserialize
DeComponents(j) ==
    IF j.t # "arr" THEN DErr
    ELSE LET each == [i \in 1..Len(j.a) |-> DeComponent(j.a[i])]
         IN  IF \A i \in 1..Len(each) : each[i].ok
             THEN DOk([i \in 1..Len(each) |-> each[i].val])
             ELSE DErr

\* Option<Component>
DeOptComponent(m, key) ==
    IF ~Present(m, key) THEN DOk(None)
    ELSE LET c == DeComponent(m[key])
         IN  IF c.ok THEN DOk(Some(c.val)) ELSE DErr

\* Option<Vec<Component>>
DeOptComponents(m, key) ==
    IF ~Present(m, key) THEN DOk(None)
    ELSE LET v == DeComponents(m[key])
         IN  IF v.ok THEN DOk(Some(v.val)) ELSE DErr

\* struct DisplayEntityData, Deserialize
DeDisplayEntityData(j) ==
    IF j.t # "obj" THEN DErr
    ELSE LET name == DeOptComponent(j.m, "name")
             id == IF HasStr(j.m, "id") THEN ParseUuid(j.m["id"].s) ELSE None
         IN  IF name.ok /\ HasStr(j.m, "type") /\ id # None
             THEN DOk(DisplayEntityData(name.val, j.m["type"].s, id[1]))
             ELSE DErr

\* #[serde(tag = "action")] enum HoverEvent, Deserialize
DeHoverEvent(j) ==
    IF /\ j.t = "obj"
       /\ HasStr(j.m, "action")
       /\ \E a \in DOMAIN HoverActionWire : HoverActionWire[a] = j.m["action"].s
       /\ "contents" \in DOMAIN j.m
    THEN LET action == CHOOSE a \in DOMAIN HoverActionWire :
                          HoverActionWire[a] = j.m["action"].s
             contents ==
                CASE action = "ShowText"   -> DeComponent(j.m["contents"])
                  [] action = "ShowItem"   -> DeDisplayItemData(j.m["contents"])
                  [] action = "ShowEntity" -> DeDisplayEntityData(j.m["contents"])
         IN  IF contents.ok
             THEN DOk([action |-> action, contents |-> contents.val])
             ELSE DErr
    ELSE DErr

\* Option<HoverEvent>
DeOptHoverEvent(m, key) ==
    IF ~Present(m, key) THEN DOk(None)
    ELSE LET e == DeHoverEvent(m[key])
         IN  IF e.ok THEN DOk(Some(e.val)) ELSE DErr

\* the variants of MessageContents, in the order in which untagged tries them
ContentsVariants == <<"Plain", "Translate", "Score", "Entity", "Keybind", "Nbt">>

\* one variant of MessageContents read from the flattened entries
DeContentsVariant(variant, m) ==
    CASE variant = "Plain" ->
            IF HasStr(m, "text") THEN DOk(Plain(m["text"].s)) ELSE DErr
      [] variant = "Translate" ->
            LET with == DeOptComponents(m, "with")
            IN  IF HasStr(m, "translate") /\ with.ok
                THEN DOk([kind |-> "Translate", translate |-> m["translate"].s,
                          with |-> with.val])
                ELSE DErr
      [] variant = "Score" ->
            IF "score" \in DOMAIN m /\ m["score"].t = "obj"
            THEN LET sm == m["score"].m
                     value == DeOptString(sm, "value")
                 IN  IF HasStr(sm, "name") /\ HasStr(sm, "objective") /\ value.ok
                     THEN DOk([kind |-> "Score", name |-> sm["name"].s,
                               objective |-> sm["objective"].s,
                               value |-> value.val])
                     ELSE DErr
            ELSE DErr
      [] variant = "Entity" ->
            LET separator == DeOptComponent(m, "separator")
            IN  IF HasStr(m, "selector") /\ separator.ok
                THEN DOk([kind |-> "Entity", selector |-> m["selector"].s,
                          separator |-> separator.val])
                ELSE DErr
      [] variant = "Keybind" ->
            IF HasStr(m, "keybind")
            THEN DOk([kind |-> "Keybind", keybind |-> m["keybind"].s])
            ELSE DErr
      [] variant = "Nbt" ->
            LET interpret == DeOptBool(m, "interpret")
                separator == DeOptComponent(m, "separator")
                block == DeOptString(m, "block")
                entity == DeOptString(m, "entity")
                storage == DeOptString(m, "storage")
            IN  IF /\ HasStr(m, "nbt")
                   /\ interpret.ok /\ separator.ok
                   /\ block.ok /\ entity.ok /\ storage.ok
                THEN DOk([kind |-> "Nbt", nbt |-> m["nbt"].s,
                          interpret |-> interpret.val,
                          separator |-> separator.val, block |-> block.val,
                          entity |-> entity.val, storage |-> storage.val])
                ELSE DErr

\* #[serde(untagged)] enum MessageContents, Deserialize: the first variant,
\* from the i-th on, that reads; an error when none does
DeContentsFrom(i, m) ==
    IF i > Len(ContentsVariants) THEN DErr
    ELSE LET r == DeContentsVariant(ContentsVariants[i], m)
         IN  IF r.ok THEN r ELSE DeContentsFrom(i + 1, m)

DeContents(m) == DeContentsFrom(1, m)

\* struct Component, Deserialize (serde_json::from_str::<Component>);
\* #[serde(flatten)] hands the keys that are no field of Component to contents
DeComponent(j) ==
    IF j.t # "obj" THEN DErr
    ELSE LET m == j.m
             flat == [k \in DOMAIN m \ ComponentFields |-> m[k]]
             extra == DeOptComponents(m, "extra")
             bold == DeOptBool(m, "bold")
             italic == DeOptBool(m, "italic")
             obfuscated == DeOptBool(m, "obfuscated")
             strikethrough == DeOptBool(m, "strikethrough")
             underlined == DeOptBool(m, "underlined")
             reset == DeOptBool(m, "reset")
             color == DeOptTextColor(m, "color")
             contents == DeContents(flat)
             insertion == DeOptString(m, "insertion")
             click == DeOptClickEvent(m, "clickEvent")
             hover == DeOptHoverEvent(m, "hoverEvent")
         IN  IF /\ extra.ok /\ bold.ok /\ italic.ok /\ obfuscated.ok
                /\ strikethrough.ok /\ underlined.ok /\ reset.ok /\ color.ok
                /\ contents.ok /\ insertion.ok /\ click.ok /\ hover.ok
             THEN DOk([extra |-> extra.val, bold |-> bold.val,
                       italic |-> italic.val, obfuscated |-> obfuscated.val,
                       strikethrough |-> strikethrough.val,
                       underlined |-> underlined.val, reset |-> reset.val,
                       color |-> color.val, contents |-> contents.val,
                       insertion |-> insertion.val, click_event |-> click.val,
                       hover_event |-> hover.val])
             ELSE DErr

(***************************************************************************)
(* Building a document with the constructors and mutators, writing it with *)
(* to_string and reading JSON back with serde_json::from_str.              *)
(***************************************************************************)
Texts == {<<"H","i">>, <<>>}
Children ==
    {Component_text(<<"c">>), set_bold(Component_text(<<"d">>), TRUE), ValueTree}
Separators == {None, Some(Component_text(<<",">>))}
Interprets == {None, Some(TRUE)}
KeyName == <<"k","e","y">>
Path == <<"p">>
Selector == <<"@","e">>
SampleUuid == [i \in 1..32 |-> HexLower[((i * 7) % 16) + 1]]

FormatCalls ==
    { <<"Bold", TRUE>>, <<"Bold", FALSE>>, <<"Italic", TRUE>>,
      <<"Obfuscated", FALSE>>, <<"Strikethrough", TRUE>>,
      <<"Underline", FALSE>>, <<"Reset", TRUE>> }

\* 0x00FF00 and 0xAABBCC
HexColors == {65280, 11189196}

NamedColors == {"Gold", "DarkRed"}

TextColors == {TextColorHex(<<"#","a","0","b","1","c","2">>)}

ClickEvents ==
    { ClickEvent_open_url(<<"u">>), ClickEvent_run_command(<<"/","r">>),
      ClickEvent_suggest_command(<<"/","s">>), ClickEvent_change_page(12),
      ClickEvent_copy_to_clipboard(<<"m">>) }

HoverEvents ==
    { HoverEvent_show_text(Component_text(<<"t">>)),
      HoverEvent_show_item(DisplayItemData(<<"i">>, None, None)),
      HoverEvent_show_item(DisplayItemData(<<"i">>, Some(3), Some(<<"{","}">>))),
      HoverEvent_show_entity(DisplayEntityData(None, <<"p","i","g">>, SampleUuid)),
      HoverEvent_show_entity(DisplayEntityData(Some(Component_text(<<"n">>)),
                                               <<"p","i","g">>, SampleUuid)) }

\* a constructor returns the document that the mutators then build on
Construct(c) ==
    /\ phase = "idle"
    /\ pc = "idle"
    /\ doc' = c
    /\ phase' = "build"
    /\ UNCHANGED <<calls, wire, decoded, parserVars>>

NewText == \E msg \in Texts : Construct(Component_text(msg))

NewTranslate ==
    \E with \in {None, Some(<<>>)} \cup {Some(<<c>>) : c \in Children} :
        Construct(Component_translate(KeyName, with))

NewScore ==
    \E value \in {None, Some(<<"7">>)} :
        Construct(Component_score(<<"n">>, <<"o">>, value))

NewEntity == \E sep \in Separators : Construct(Component_entity(Selector, sep))

NewKeybind == Construct(Component_keybind(KeyName))

NewEntityNbt ==
    \E interpret \in Interprets, sep \in Separators :
        Construct(Component_entity_nbt(Path, Selector, interpret, sep))

NewStorageNbt ==
    \E interpret \in Interprets, sep \in Separators :
        Construct(Component_storage_nbt(Path, <<"s">>, interpret, sep))

\* one mutator call on the document being built
Mutate(d) ==
    /\ phase = "build"
    /\ calls < MaxMutators
    /\ doc' = d
    /\ calls' = calls + 1
    /\ UNCHANGED <<wire, decoded, phase, parserVars>>

CallFormatted == \E fc \in FormatCalls : Mutate(formatted(doc, fc[1], Some(fc[2])))

CallColorU32 == \E v \in HexColors : Mutate(color_u32(doc, v))

CallColorNamed == \E c \in NamedColors : Mutate(color_named(doc, c))

CallColorText == \E c \in TextColors : Mutate(color_text(doc, c))

CallInsertText == Mutate(insert_text(doc, <<"i","n","s">>))

CallClickEvent == \E e \in ClickEvents : Mutate(click_event(doc, e))

CallHoverEvent == \E e \in HoverEvents : Mutate(hover_event(doc, e))

CallAppend == \E c \in Children : Mutate(Component_append(doc, c))

\* Component::append_to_last_child; `vec.pop().unwrap()` panics on an empty Vec
CallAppendToLastChild ==
    /\ phase = "build"
    /\ calls < MaxMutators
    /\ \E c \in Children :
          IF append_to_last_child_panics(doc)
          THEN /\ phase' = "panicked"
               /\ UNCHANGED <<doc, calls>>
          ELSE /\ doc' = append_to_last_child(doc, c)
               /\ calls' = calls + 1
               /\ phase' = phase
    /\ UNCHANGED <<wire, decoded, parserVars>>

\* Component::to_string
Encode ==
    /\ phase = "build"
    /\ wire' = SerComponent(doc)
    /\ phase' = "encoded"
    /\ UNCHANGED <<doc, calls, decoded, parserVars>>

\* JSON that no to_string of this model wrote
TextA == "text" :> JStr(<<"a">>)

ForeignWires ==
    { JObj(TextA @@ ("translate" :> JStr(<<"b">>))),
      JObj(("keybind" :> JStr(KeyName)) @@ ("selector" :> JStr(Selector))),
      JObj(NoEntries),
      JObj("bold" :> JBool(TRUE)),
      JObj(TextA @@ ("bold" :> JNull)),
      JObj(TextA @@ ("unknown" :> JNum(1))),
      JObj(TextA @@ ("color" :> JStr(<<"n","o","t","a","c","o","l","o","r">>))),
      JObj(TextA @@ ("color" :> JStr(<<"#","1","2","3","4","5">>))),
      JObj(TextA @@ ("color" :> JStr(<<"#","A","B","C","D","E","F">>))),
      JObj(TextA @@ ("color" :> JStr(<<"d","a","r","k","_","r","e","d">>))),
      JObj(TextA @@ ("color" :> JNum(1))),
      JObj(TextA @@ ("clickEvent" :>
            JObj(("action" :> JStr(<<"n","o","n","e">>)) @@ ("value" :> JStr(<<"v">>))))),
      JObj(TextA @@ ("extra" :> JArr(<<>>))),
      JObj(TextA @@ ("extra" :> JArr(<<JObj("text" :> JStr(<<"b">>))>>))),
      JObj(TextA @@ ("extra" :>
            JArr(<<JObj(("text" :> JStr(<<"b">>)) @@ ("extra" :> JArr(<<>>)))>>))),
      JArr(<<>>) }

\* JSON arrives from the wire
Receive ==
    /\ phase = "idle"
    /\ pc = "idle"
    /\ wire' \in ForeignWires
    /\ phase' = "received"
    /\ UNCHANGED <<doc, calls, decoded, parserVars>>

\* serde_json::from_str::<Component>
Decode ==
    /\ phase \in {"encoded", "received"}
    /\ decoded' = DeComponent(wire)
    /\ phase' = "decoded"
    /\ UNCHANGED <<doc, calls, wire, parserVars>>

\* the document that was read is built on with the mutators
Rebuild ==
    /\ phase = "decoded"
    /\ decoded.ok
    /\ doc' = decoded.val
    /\ wire' = JNull
    /\ decoded' = DErr
    /\ phase' = "build"
    /\ UNCHANGED <<calls, parserVars>>

CodecNext ==
    \/ NewText
    \/ NewTranslate
    \/ NewScore
    \/ NewEntity
    \/ NewKeybind
    \/ NewEntityNbt
    \/ NewStorageNbt
    \/ CallFormatted
    \/ CallColorU32
    \/ CallColorNamed
    \/ CallColorText
    \/ CallInsertText
    \/ CallClickEvent
    \/ CallHoverEvent
    \/ CallAppend
    \/ CallAppendToLastChild
    \/ Encode
    \/ Receive
    \/ Decode
    \/ Rebuild

CodecSpec == Init /\ [][CodecNext]_vars

(***************************************************************************)
(* Properties of the parser and the entry points.                          *)
(***************************************************************************)
\* the whole token sequence of a markup, up to and including a first Error
RECURSIVE AllTokens(_)
AllTokens(s) ==
    IF s = <<>> THEN <<>>
    ELSE LET nx == Lexer_next(s)
         IN  IF nx.tok.type = "Error" THEN <<nx.tok>>
             ELSE <<nx.tok>> \o AllTokens(nx.rest)

\* the node at the end of the rightmost spine
RECURSIVE DeepestLast(_)
DeepestLast(c) ==
    IF c.extra = None \/ c.extra[1] = <<>> THEN c
    ELSE DeepestLast(c.extra[1][Len(c.extra[1])])

HaltedOn(e) == pc = "returned" /\ advanced.kind = "Err" /\ advanced.error = e

\* C1: when the parse halts on a placeholder tag that has no binding, the entry
\* point returns the failure UndefinedPlaceholder(name) and not a document.
C1_UndefinedPlaceholderFails ==
    HaltedOn("UndefinedPlaceholder")
        => ret = [kind |-> "UndefinedPlaceholder", name |-> advanced.detail]

\* C2: when the parse halts on an Error token, the entry point reports a syntax
\* error to its caller and not the partially built tree.
C2_ErrorTokenFails ==
    HaltedOn("UnexpectedParsingError") => ret.kind = "SyntaxError"

\* no token of the markup is Error and every placeholder tag is bound
CleanMarkup(s, table) ==
    \E tks \in {AllTokens(s)} :
        \A i \in 1..Len(tks) :
            /\ tks[i].type # "Error"
            /\ tks[i].type = "PlaceholderTag" => tks[i].name \in DOMAIN table

\* C3: on a markup without Error token and with every placeholder bound, the
\* parse eventually reaches end of input and the entry point returns the
\* accumulator as a document, never a failure.
C3_CleanMarkupFinishes ==
    (pc = "parse" /\ CleanMarkup(st, placeholders))
        ~> (/\ pc = "returned"
              /\ tokens = <<>>
              /\ advanced = Err("EOF", <<>>)
              /\ ret = [kind |-> "Document", doc |-> current])

C3_Witness ==
    /\ pc = "returned"
    /\ CleanMarkup(st, placeholders)
    /\ advanced = Err("EOF", <<>>)
    /\ ret.kind = "Document"
    /\ ret.doc.extra # None
    /\ Len(AllTokens(st)) >= 3

\* "#" and the six upper-case hexadecimal digits of v, leading zeros kept
SixDigitHex(v) ==
    <<"#", HexUpper[((v \div 1048576) % 16) + 1], HexUpper[((v \div 65536) % 16) + 1],
      HexUpper[((v \div 4096) % 16) + 1], HexUpper[((v \div 256) % 16) + 1],
      HexUpper[((v \div 16) % 16) + 1], HexUpper[(v % 16) + 1]>>

\* the last color token of a pending queue, if any
RECURSIVE LastColorToken(_)
LastColorToken(queue) ==
    IF queue = <<>> THEN None
    ELSE IF queue[Len(queue)].type \in {"HexColor", "NamedColor"}
    THEN Some(queue[Len(queue)])
    ELSE LastColorToken(SubSeq(queue, 1, Len(queue) - 1))

\* C8: a hex tag with value v in 0..0xFFFFFF gives the next text run the color
\* string "#" followed by exactly 6 hex digits that encode v.
C8_HexColorHasSixDigits ==
    [][(/\ pc = "parse"
        /\ tokens # <<>>
        /\ Lexer_next(tokens).tok.type = "Contents"
        /\ LastColorToken(stack) # None
        /\ LastColorToken(stack)[1].type = "HexColor"
        /\ LastColorToken(stack)[1].hex <= 16777215)
       => DeepestLast(current').color
              = Some(TextColorHex(SixDigitHex(LastColorToken(stack)[1].hex)))]_vars

\* the result of "<bold>A</bold>B" with the given bold flag on the "B" node
ToggleTree(flagB) ==
    Component_append(DefaultComponent,
        Component_append(set_bold(Component_text(PieceA), TRUE),
            [Component_text(PieceB) EXCEPT !.bold = flagB]))

\* C9 as stated: "<bold>A</bold>B" yields "A" with bold present-true and, below
\* it, "B" with bold unset.
C9_ClosingTagLeavesUnset ==
    (pc = "returned" /\ st = ExampleToggle) => ret.doc = ToggleTree(None)

\* the markup ends with a closing tag of kind f and then a text run
EndsWithClosing(s, f) ==
    LET tks == AllTokens(s)
        n == Len(tks)
    IN  /\ n >= 2
        /\ tks[n].type = "Contents"
        /\ tks[n - 1] = TokFormatting(f, FALSE)

\* C9 amended: a closing tag sets the flag of the next text run to
\* present-false; "<bold>A</bold>B" yields "A" with bold present-true and,
\* below it, "B" with bold present-false.
C9_ClosingTagSetsFalse ==
    /\ (pc = "returned" /\ st = ExampleToggle) => ret.doc = ToggleTree(Some(FALSE))
    /\ (pc = "returned" /\ advanced = Err("EOF", <<>>) /\ EndsWithClosing(st, "Bold"))
           => /\ DeepestLast(ret.doc).contents = Plain(AllTokens(st)[Len(AllTokens(st))].text)
              /\ DeepestLast(ret.doc).bold = Some(FALSE)

C9_Witness ==
    /\ pc = "returned"
    /\ st = ExampleToggle
    /\ DeepestLast(ret.doc).contents = Plain(PieceB)

\* the markup is a text run, a bound placeholder tag and a text run
IsTextTagText(s, table) ==
    LET tks == AllTokens(s)
    IN  /\ Len(tks) = 3
        /\ tks[1].type = "Contents"
        /\ tks[2].type = "PlaceholderTag"
        /\ tks[2].name \in DOMAIN table
        /\ tks[3].type = "Contents"

NoStyle(c) ==
    /\ c.bold = None /\ c.italic = None /\ c.obfuscated = None
    /\ c.strikethrough = None /\ c.underlined = None /\ c.reset = None
    /\ c.color = None

\* C10: for a markup "A<x>B" with x bound to X, the result's flattened text is
\* A + flatten(X) + B, the copy of X in the result is X itself, and the node of
\* the text run "B" hangs below the reset marker after it, with no formatting
\* flag and no color.
C10_PlaceholderDoesNotLeak ==
    (pc = "returned" /\ IsTextTagText(st, placeholders))
        => LET tks == AllTokens(st)
               X == placeholders[tks[2].name]
               top == ret.doc.extra[1]
               nodeB == DeepestLast(ret.doc)
           IN  /\ flatten(ret.doc) = tks[1].text \o flatten(X) \o tks[3].text
               /\ Len(top) = 3
               /\ top[2] = X
               /\ top[3] = Component_append(ResetMarker, nodeB)
               /\ nodeB.contents = Plain(tks[3].text)
               /\ NoStyle(nodeB)
               /\ nodeB.extra = None

C10_Witness ==
    /\ pc = "returned"
    /\ st = PieceA \o PieceX \o PieceB
    /\ NameX \in DOMAIN placeholders
    /\ placeholders[NameX].bold = Some(TRUE)
    /\ flatten(ret.doc) = <<"A", "X", "B">>

(***************************************************************************)
(* Properties of the JSON form.                                            *)
(***************************************************************************)
\* C4: a document that was written with to_string and read back is read
\* successfully and equals the document that was written.
C4_RoundTrip ==
    (phase = "decoded" /\ wire = SerComponent(doc)) => decoded = DOk(doc)

\* an nbt document with a named colour and an entity hover event without a
\* name has been written and read back
C4_Witness ==
    /\ phase = "decoded"
    /\ wire = SerComponent(doc)
    /\ decoded = DOk(doc)
    /\ doc.contents.kind = "Nbt"
    /\ doc.color = Some(TextColorNamed("DarkRed"))
    /\ doc.hover_event # None
    /\ doc.hover_event[1].action = "ShowEntity"
    /\ doc.hover_event[1].contents.name = None

\* the JSON value holds a null somewhere
RECURSIVE HasNull(_)
HasNull(j) ==
    CASE j.t = "null" -> TRUE
      [] j.t = "arr"  -> \E i \in 1..Len(j.a) : HasNull(j.a[i])
      [] j.t = "obj"  -> \E k \in DOMAIN j.m : HasNull(j.m[k])
      [] OTHER        -> FALSE

\* C5: the serialized form of a document never holds a null: every absent
\* optional field is omitted.
C5_AbsentFieldsOmitted == phase = "encoded" => ~HasNull(wire)

\* the contents variants whose required field the node object carries
RequiredField ==
    [ Plain |-> "text", Translate |-> "translate", Score |-> "score",
      Entity |-> "selector", Keybind |-> "keybind", Nbt |-> "nbt" ]

VariantsCarried(j) ==
    {v \in DOMAIN RequiredField : RequiredField[v] \in DOMAIN j.m}

\* C6: reading a node object that carries the required field of no contents
\* variant, or of more than one, fails.
C6_ZeroOrManyContentsFail ==
    (phase = "decoded" /\ wire.t = "obj" /\ Cardinality(VariantsCarried(wire)) # 1)
        => ~decoded.ok

\* a lower-snake-case colour name, or # and exactly six hex digits
IsColorString(s) ==
    \/ \E c \in NamedColor : NamedColorWire(c) = s
    \/ Len(s) = 7 /\ s[1] = "#" /\ AllHex(SubSeq(s, 2, 7))

\* C7: reading a node whose color is a string that is neither a colour name
\* nor # and six hex digits fails.
C7_InvalidColorFails ==
    (/\ phase = "decoded"
     /\ wire.t = "obj"
     /\ "color" \in DOMAIN wire.m
     /\ wire.m["color"].t = "str"
     /\ ~IsColorString(wire.m["color"].s))
        => ~decoded.ok

(***************************************************************************)
(* Properties of the steps of the parser.                                  *)
(***************************************************************************)
\* the next token of the input is a text run
AtContents == pc = "parse" /\ tokens # <<>> /\ tokens[1] \notin {"<", ">"}

\* the literal text of the run at the head of s: up to the next "<" or ">"
ContentsRun(s) ==
    LET n == CHOOSE n \in 1..Len(s) :
                /\ \A i \in 1..n : s[i] \notin {"<", ">"}
                /\ n = Len(s) \/ s[n + 1] \in {"<", ">"}
    IN  SubSeq(s, 1, n)

\* the greatest element of a non-empty set of numbers
Greatest(S) == CHOOSE i \in S : \A k \in S : k <= i

\* the color that the last color token of the queue stands for, if any
PendingColor(queue) ==
    LET idx == {i \in 1..Len(queue) : queue[i].type \in {"HexColor", "NamedColor"}}
    IN  IF idx = {} THEN None
        ELSE LET tk == queue[Greatest(idx)]
             IN  IF tk.type = "NamedColor"
                 THEN Some(TextColorNamed(tk.color))
                 ELSE Some(TextColorHex(FormatHexColor(tk.hex)))

\* the enable flag of the last formatting token of kind f in the queue, if any
PendingFlag(queue, f) ==
    LET idx == {i \in 1..Len(queue) :
                   queue[i].type = "Formatting" /\ queue[i].fmt = f}
    IN  IF idx = {} THEN None ELSE Some(queue[Greatest(idx)].enable)

\* the flag of a node that a formatting kind sets
FlagOf(node, f) ==
    CASE f = "Obfuscated"    -> node.obfuscated
      [] f = "Bold"          -> node.bold
      [] f = "Strikethrough" -> node.strikethrough
      [] f = "Underline"     -> node.underlined
      [] f = "Italic"        -> node.italic
      [] f = "Reset"         -> node.reset

\* C11: a Contents step attaches a new text node whose text is the literal text
\* of the run, whose color and whose flag of each formatting kind are those of
\* the last pending token of that kind (absent when the queue holds none), and
\* it leaves the pending queue empty.
C11_ContentsDrainsFifo ==
    [][AtContents
       => LET node == DeepestLast(current')
          IN  /\ node.contents = Plain(ContentsRun(tokens))
              /\ node.color = PendingColor(stack)
              /\ \A f \in Formatting : FlagOf(node, f) = PendingFlag(stack, f)
              /\ node.extra = None
              /\ stack' = <<>>]_vars

\* "<red><bold>Hi" has been parsed: color red, bold true, text "Hi"
C11_Witness ==
    /\ pc = "returned"
    /\ st = ExampleAccumulate
    /\ stack = <<>>
    /\ DeepestLast(ret.doc)
          = set_bold(color_named(Component_text(<<"H","i">>), "Red"), TRUE)

(***************************************************************************)
(* Properties of the tree mutators.                                        *)
(***************************************************************************)
\* C12: append and append_to_last_child complete on every document, also on
\* one that was read from JSON with a present but empty children list on its
\* rightmost spine: no call panics.
C12_AppendersAreTotal == phase # "panicked" /\ pc # "panicked"

(***************************************************************************)
(* Properties of the tokenizer.                                            *)
(***************************************************************************)
\* the input starts with a bracketed tag "<name>" whose name is `name`
AtTag(name) ==
    /\ pc = "parse"
    /\ Len(tokens) >= Len(name) + 2
    /\ tokens[1] = "<"
    /\ tokens[Len(name) + 2] = ">"
    /\ SubSeq(tokens, 2, Len(name) + 1) = name
    /\ \A i \in 1..Len(name) : name[i] \notin {"<", ">"}

\* the names of the tags that occur in the inputs
NamesAt(s) ==
    {SubSeq(s, 2, j - 1) : j \in {j \in 2..Len(s) : s[j] = ">"}}

IsColorName(name) == \E c \in NamedColor : NamedColorName[c] = name

IsFormattingName(name) == \E f \in Formatting : FormattingName[f] = name

\* a name as the spec describes a placeholder name
ClaimedPlaceholderName(name) ==
    /\ name # <<>>
    /\ \A i \in 1..Len(name) : name[i] \notin ({"<", ">", "/", "#"} \cup Whitespace)
    /\ ~IsColorName(name)
    /\ ~IsFormattingName(name)

\* a name as the pattern of PlaceholderTag takes it
PlaceholderName(name) ==
    /\ ClaimedPlaceholderName(name)
    /\ \A i \in 1..Len(name) : name[i] \notin {"\\", "^"}

\* the token pulled by the step is PlaceholderTag(name), for the names in Names;
\* for a color or formatting name it is no PlaceholderTag
TagsTokenizeAs(Names(_)) ==
    \A name \in NamesAt(tokens) :
        AtTag(name)
            => /\ Names(name) => pulled' = Append(pulled, TokPlaceholderTag(name))
               /\ (IsColorName(name) \/ IsFormattingName(name))
                     => /\ Len(pulled') = Len(pulled) + 1
                        /\ pulled'[Len(pulled')].type # "PlaceholderTag"

Kids(n) == IF n.extra = None THEN <<>> ELSE n.extra[1]

RECURSIVE NodeAt(_, _)
NodeAt(t, path) ==
    IF path = <<>> THEN t ELSE NodeAt(Kids(t)[Head(path)], Tail(path))

RECURSIVE Paths(_)
Paths(t) ==
    {<<>>} \cup UNION {{<<i>> \o q : q \in Paths(Kids(t)[i])} : i \in 1..Len(Kids(t))}

\* the path of last-child links from t to a node without children
RECURSIVE SpinePath(_)
SpinePath(t) ==
    IF Kids(t) = <<>> THEN <<>>
    ELSE <<Len(Kids(t))>> \o SpinePath(Kids(t)[Len(Kids(t))])

\* the fields of a node other than its children
Shallow(n) == [n EXCEPT !.extra = None]

\* r is d with c attached as the sole child of the node at the end of d's
\* rightmost spine, and nothing else changed
AttachedAtSpineEnd(d, c, r) ==
    LET p == SpinePath(d)
    IN  /\ Paths(r) = Paths(d) \cup {p \o <<1>> \o q : q \in Paths(c)}
        /\ \A q \in Paths(d) :
              /\ Shallow(NodeAt(r, q)) = Shallow(NodeAt(d, q))
              /\ q # p => ((NodeAt(r, q).extra = None) <=> (NodeAt(d, q).extra = None))
        /\ NodeAt(r, p).extra = Some(<<c>>)
        /\ NodeAt(r, p \o <<1>>) = c

RECURSIVE Replay(_, _, _, _)
Replay(tks, table, acc, queue) ==
    IF tks = <<>> THEN acc
    ELSE LET tk == Head(tks)
         IN  CASE tk.type = "Contents" ->
                    Replay(Tail(tks), table,
                           append_to_last_child(acc,
                               DrainStack(Component_text(tk.text), queue).text),
                           <<>>)
               [] tk.type = "PlaceholderTag" ->
                    Replay(Tail(tks), table,
                           SubstitutePlaceholder(acc, table[tk.name]), queue)
               [] OTHER -> Replay(Tail(tks), table, acc, Append(queue, tk))

\* advance fails on this token
Failing(tk, table) ==
    \/ tk.type = "Error"
    \/ tk.type = "PlaceholderTag" /\ tk.name \notin DOMAIN table

\* advance has failed on an Error token or on an undefined placeholder
FailedOnToken ==
    /\ advanced.kind = "Err"
    /\ advanced.error \in {"UnexpectedParsingError", "UndefinedPlaceholder"}

\* the input that has been consumed
Consumed == SubSeq(st, 1, Len(st) - Len(tokens))

\* C15: once advance has failed on an Error token or an undefined placeholder,
\* no later token is pulled or applied: the tokens pulled are the tokens of the
\* consumed input, in input order, the last of them is the first failing one,
\* the accumulator is the one that the tokens before it produce, and from then
\* on the input, the accumulator and the pending queue stay as they are.
C15_StopsAtFirstFailure ==
    /\ [](FailedOnToken
            => /\ pulled # <<>>
               /\ st = Consumed \o tokens
               /\ pulled = AllTokens(Consumed)
               /\ Failing(pulled[Len(pulled)], placeholders)
               /\ \A i \in 1..(Len(pulled) - 1) : ~Failing(pulled[i], placeholders)
               /\ pc \in {"finish", "returned"}
               /\ current = Replay(SubSeq(pulled, 1, Len(pulled) - 1), placeholders,
                                   DefaultComponent, <<>>)
               /\ pc = "returned" => ret = [kind |-> "Document", doc |-> current])
    /\ [][FailedOnToken
            => /\ tokens' = tokens
               /\ pulled' = pulled
               /\ current' = current
               /\ stack' = stack]_vars

\* the parse has returned after a failing token with input left behind it and
\* a substituted placeholder before it
C15_Witness ==
    /\ pc = "returned"
    /\ FailedOnToken
    /\ tokens # <<>>
    /\ Len(pulled) = 2
    /\ pulled[1].type = "PlaceholderTag"
    /\ Len(Kids(current)) = 2

\* an empty text node with reset = true and no other field set
EmptyResetNode ==
    [ extra |-> None, bold |-> None, italic |-> None, obfuscated |-> None,
      strikethrough |-> None, underlined |-> None, reset |-> Some(TRUE),
      color |-> None, contents |-> [kind |-> "Plain", text |-> <<>>],
      insertion |-> None, click_event |-> None, hover_event |-> None ]

\* C16: a PlaceholderTag step with a bound name appends exactly two nodes at
\* the end of the accumulator's own children, a copy equal to the bound node
\* and after it an empty text node with reset = true and nothing else set; the
\* pending queue, the placeholder table, the accumulator's own fields and its
\* earlier children are unchanged.
C16_PlaceholderStepFrame ==
    [][\A name \in DOMAIN placeholders :
          (AtTag(name) /\ PlaceholderName(name))
              => /\ Kids(current') = Kids(current) \o <<placeholders[name], EmptyResetNode>>
                 /\ Shallow(current') = Shallow(current)
                 /\ stack' = stack
                 /\ placeholders' = placeholders]_vars

\* a bound placeholder has been substituted after a text run, with a token
\* pending in the queue
C16_Witness ==
    /\ pc = "parse"
    /\ advanced = Ok
    /\ pulled # <<>>
    /\ pulled[Len(pulled)].type = "PlaceholderTag"
    /\ stack # <<>>
    /\ Len(Kids(current)) = 3
    /\ Kids(current)[2] = placeholders[pulled[Len(pulled)].name]

IsStyleToken(tk) == tk.type \in {"HexColor", "NamedColor", "Formatting"}

\* the tokens pulled after the last Contents token
SinceLastContents ==
    LET idx == {i \in 1..Len(pulled) : pulled[i].type = "Contents"}
        k == IF idx = {} THEN 0 ELSE Greatest(idx)
    IN  SubSeq(pulled, k + 1, Len(pulled))

\* C17: the pending queue holds only HexColor, NamedColor and Formatting
\* tokens, namely those read since the last Contents step, in the order in
\* which they were read; the Contents step never fails on an invalid token in
\* the queue.
C17_QueueHoldsStyleTokens ==
    /\ \A i \in 1..Len(stack) : IsStyleToken(stack[i])
    /\ stack = SelectSeq(SinceLastContents, IsStyleToken)
    /\ ~(advanced.kind = "Err" /\ advanced.error = "InvalidToken")

\* two style tokens are pending after a substituted placeholder
C17_Witness ==
    /\ pc = "parse"
    /\ Len(pulled) = 3
    /\ pulled[1].type = "PlaceholderTag"
    /\ advanced = Ok
    /\ stack = <<pulled[2], pulled[3]>>
    /\ pulled[2] # pulled[3]

\* the text that a sequence of pulled tokens stands for: the literal text of a
\* Contents token, the flattened text of a bound placeholder, nothing for a
\* color or formatting tag and for a failing token
RECURSIVE FlatText(_, _)
FlatText(tks, table) ==
    IF tks = <<>> THEN <<>>
    ELSE LET tk == Head(tks)
             own == IF tk.type = "Contents" THEN tk.text
                    ELSE IF tk.type = "PlaceholderTag" /\ tk.name \in DOMAIN table
                    THEN flatten(table[tk.name])
                    ELSE <<>>
         IN  own \o FlatText(Tail(tks), table)

\* C18: the flattened text of the accumulator, and of the tree the parse
\* returns, is the concatenation in input order of the literal text of each
\* Contents token and the flattened text of each substituted placeholder
\* processed so far; color and formatting tags contribute nothing.
C18_FlattenIsConcatenation ==
    /\ flatten(current) = FlatText(pulled, placeholders)
    /\ pc = "returned" => flatten(ret.doc) = FlatText(pulled, placeholders)

\* "<x><bold>A" has been parsed with x bound to a node with a child
C18_Witness ==
    /\ pc = "returned"
    /\ st = PieceX \o PieceBold \o PieceA
    /\ NameX \in DOMAIN placeholders
    /\ placeholders[NameX] = ValueTree
    /\ flatten(ret.doc) = <<"Y", "Z", "A">>

\* the placeholder tags with a binding among the tokens pulled, in pull order
Substituted ==
    LET Bound(tk) == tk.type = "PlaceholderTag" /\ tk.name \in DOMAIN placeholders
    IN  SelectSeq(pulled, Bound)

\* 1 when a text run was attached to the accumulator before any placeholder
\* was substituted, else 0
LeadingRuns ==
    IF \E i \in 1..Len(pulled) :
          /\ pulled[i].type = "Contents"
          /\ \A k \in 1..(i - 1) : pulled[k].type # "PlaceholderTag"
    THEN 1 ELSE 0

\* C19: in every state the i-th substituted placeholder is a top-level child of
\* the accumulator that equals its bound node, sub-tree included, and the child
\* after it is a reset marker; the accumulator has no other top-level children
\* but a leading text run, so the rightmost spine goes through the last reset
\* marker and no text run is attached to a placeholder copy.
C19_PlaceholderSubtreesUnchanged ==
    /\ Len(Kids(current)) = LeadingRuns + 2 * Len(Substituted)
    /\ \A i \in 1..Len(Substituted) :
          /\ Kids(current)[LeadingRuns + 2 * i - 1] = placeholders[Substituted[i].name]
          /\ Shallow(Kids(current)[LeadingRuns + 2 * i]) = EmptyResetNode

\* "<x>A<x>" has been parsed with x bound to a node with a child: the text run
\* hangs below the first marker
C19_Witness ==
    /\ pc = "returned"
    /\ st = PieceX \o PieceA \o PieceX
    /\ Len(Substituted) = 2
    /\ placeholders[NameX] = ValueTree
    /\ Len(Kids(current)) = 4
    /\ NodeAt(current, <<2, 1>>) = Component_text(PieceA)

====
